---- MODULE Spec2Model ----
(***************************************************************************)
(* A model of the go-sse dispatch engine: Server (sse.go), Channel         *)
(* (channel.go), Client and Message, and the goroutines that use them.     *)
(*                                                                         *)
(* Goroutines of the program and where they appear here:                   *)
(*   - Server.dispatch, the control loop: one action per select case       *)
(*     (HandleAdd, HandleRemove, HandleClose, HandleShutdown).  The        *)
(*     control channels are unbuffered, so a sender's send and the loop's  *)
(*     receive are one rendezvous; the action is that rendezvous and the   *)
(*     whole case body.                                                    *)
(*   - one ServeHTTP call per client (Connect, then blocked in             *)
(*     s.addClient <- c, then draining c.send) with its disconnect         *)
(*     goroutine (CloseNotify, then blocked in s.removeClient <- c).       *)
(*   - a publisher that calls Server.SendMessageToClient.  That method     *)
(*     runs on the CALLER's goroutine: it reads s.channels and the         *)
(*     Channel and Client objects directly, without going through the      *)
(*     control loop.  It is therefore a process of its own with a program  *)
(*     counter (pub.pc), whose steps interleave with the loop's.           *)
(*   - a caller of Server.Restart (rs), whose range over s.channels and    *)
(*     sends on s.closeChannel also run on the caller's goroutine.         *)
(*   - time (Tick) and the heartbeat case, which broadcasts from the       *)
(*     control loop itself (hb).                                           *)
(*   - the drain loop of ServeHTTP writing a Message (wire).               *)
(*                                                                         *)
(* The events whose sender goes on to something observable are received    *)
(* (RecvRemove, RecvClose, RestartSend) and handled (HandleRemove,         *)
(* HandleClose) in two steps: the sender's send completes at the receive.  *)
(*                                                                         *)
(* Specifications: Spec and FairSpec (clients, a publisher, callers of     *)
(* CloseChannel and Shutdown), RestartSpec (clients, callers of            *)
(* CloseChannel, Shutdown and Restart), TimedSpec (clients, a publisher,   *)
(* time and heartbeats), WireSpec (the writing of one Message).            *)
(*                                                                         *)
(* A Go panic that no one recovers ends the process: the variable `panic`  *)
(* records it and every action is disabled afterwards.                     *)
(***************************************************************************)
EXTENDS Integers, Sequences, FiniteSets, TLC

\* ---- bounds of the model ------------------------------------------------
NumClients == 2          \* Client objects that may ever connect
MaxMessages == 1         \* Message objects the publisher may ever create
MaxData == 3             \* characters of a Message's data
MaxBeats == 1            \* heartbeats after which time is no longer followed

\* ---- inputs --------------------------------------------------------------
Clients == 1..NumClients            \* *Client pointers
Nil == 0                            \* the nil pointer
ChanNames == {"x", "y"}             \* channel names
ClientNames == {"", "a"}            \* client names ("" is the default)
Versions == {0, 1}                  \* Message.version
\* What ChannelNameFunc makes of the requests that arrive: (channel name,
\* client name, version).  Two requests may be equal.
Requests ==
    { [channel |-> "x", name |-> "",  version |-> 0],
      [channel |-> "x", name |-> "a", version |-> 1],
      [channel |-> "y", name |-> "a", version |-> 0] }

VARIABLES
    channels,   \* Server.channels: name -> *Channel (a Channel object is
                \* identified by the client whose connection created it)
    chobj,      \* the Channel objects: [lastEventID, clients: name -> *Client]
    cl,         \* the Client objects and the position of their goroutines
    open,       \* open[c]: Client.send has not been closed
    recv,       \* recv[c]: the messages received from Client.send so far
    msgs,       \* the Message objects created so far: [id, version]; the
                \* k-th is given the id MessageId(k)
    pub,        \* the publisher's goroutine inside SendMessageToClient
    hub,        \* the control loop: "running", "closing", "stopped"
    panic,      \* "none", or the runtime panic that ended the process
    last,       \* the step taken last (history, written by every action)
    busy,       \* what dispatch holds: nothing (it is in the select), or the
                \* event it has received and whose case body it has yet to run
    rs,         \* the goroutine of a caller of Server.Restart
    clock,      \* timer: time since dispatch entered the select (time.After
                \* is armed anew there); sinceBeat: time since the last heartbeat
    opt,        \* Options: [Heartbeat]
    hb,         \* the frame of SendMessageToClient called by the heartbeat case
    wire        \* a Message taken from Client.send by the drain loop of
                \* ServeHTTP, and what has been written to the response

vars == <<channels, chobj, cl, open, recv, msgs, pub, hub, panic, last,
          busy, rs, clock, opt, hb, wire>>

\* ---- Go maps --------------------------------------------------------------
EmptyMap == [k \in {} |-> Nil]
MapSet(m, k, v) == [x \in DOMAIN m \cup {k} |-> IF x = k THEN v ELSE m[x]]
MapDel(m, k) == [x \in DOMAIN m \ {k} |-> m[x]]
Range(m) == {m[k] : k \in DOMAIN m}

\* the clients a Channel's map holds (a nil slot is skipped, channel.go:28)
Members(o) == Range(chobj[o].clients) \ {Nil}

\* the step taken last: its name, the client and the Channel object it was on
Did(op, c, o) == [op |-> op, c |-> c, ch |-> o]

\* dispatch in its select, holding no event
AtSelect == [op |-> "select", c |-> Nil, n |-> ""]
\* dispatch has received an event (the sender's send has completed)
Holding(op, c, n) == [op |-> op, c |-> c, n |-> n]

\* the next iteration of dispatch's for loop: select evaluates
\* time.After(15 * time.Second) again, which starts a new timer
Rearm(k) == [k EXCEPT !.timer = 0]

IdleRestart ==
    [pc |-> "idle", snap |-> [k \in {} |-> 0], subs |-> {}, seen |-> {}, n |-> ""]
IdleWire == [pc |-> "idle", id |-> "", data |-> << >>, event |-> "", retry |-> 0,
             out |-> << >>]

IdlePub ==
    [pc |-> "idle", chArg |-> "", clArg |-> "", msg |-> 0, ch |-> Nil, cl |-> Nil,
     chSnap |-> {}, chSeen |-> {}, clSnap |-> {}, clSeen |-> {}]

NewClient ==
    [st |-> "new", channel |-> "", name |-> "", version |-> 0, lastEventID |-> ""]

NewChannel == [lastEventID |-> "", clients |-> EmptyMap]

InitHub ==
    /\ channels = EmptyMap
    /\ chobj = [o \in Clients |-> NewChannel]
    /\ cl = [c \in Clients |-> NewClient]
    /\ open = [c \in Clients |-> FALSE]
    /\ recv = [c \in Clients |-> << >>]
    /\ msgs = << >>
    /\ pub = IdlePub
    /\ hub = "running"
    /\ panic = "none"
    /\ last = Did("Init", Nil, Nil)
    /\ busy = AtSelect
    /\ rs = IdleRestart
    /\ clock = [timer |-> 0, sinceBeat |-> 0, beats |-> 0]
    /\ hb = IdlePub

\* NewServer with Options{Heartbeat: false, RetryInterval: 0}
Init ==
    /\ InitHub
    /\ opt = [Heartbeat |-> FALSE, RetryInterval |-> 0]
    /\ wire = IdleWire

\* ---- clients: ServeHTTP and its disconnect goroutine -----------------------
\* ServeHTTP builds the Client (newClient, with no Last-Event-ID header in
\* the request) and blocks in s.addClient <- c.  Client pointers are handed
\* out in order, which only names them.
Connect(c, r) ==
    /\ panic = "none"
    /\ cl[c].st = "new"
    /\ \A d \in Clients : d < c => cl[d].st # "new"
    /\ cl' = [cl EXCEPT ![c] = [st |-> "adding", channel |-> r.channel,
                                name |-> r.name, version |-> r.version,
                                lastEventID |-> ""]]
    /\ open' = [open EXCEPT ![c] = TRUE]
    /\ last' = Did("Connect", c, Nil)
    /\ UNCHANGED <<channels, chobj, recv, msgs, pub, hub, panic,
                 busy, rs, clock, opt, hb, wire>>

\* The connection goes away: the disconnect goroutine wakes from
\* <-closeNotify and blocks in s.removeClient <- c.
CloseNotify(c) ==
    /\ panic = "none"
    /\ cl[c].st = "serving"
    /\ cl' = [cl EXCEPT ![c].st = "removing"]
    /\ last' = Did("CloseNotify", c, Nil)
    /\ UNCHANGED <<channels, chobj, open, recv, msgs, pub, hub, panic,
                 busy, rs, clock, opt, hb, wire>>

\* A goroutine blocked in a send on a control channel when dispatch closes
\* it (or sending afterwards) panics: send on closed channel.
SendAfterShutdown(c) ==
    /\ panic = "none"
    /\ hub = "stopped"
    /\ cl[c].st \in {"adding", "removing"}
    /\ panic' = "send on closed control channel"
    /\ last' = Did("SendAfterShutdown", c, Nil)
    /\ UNCHANGED <<channels, chobj, cl, open, recv, msgs, pub, hub,
                 busy, rs, clock, opt, hb, wire>>

\* ---- Channel ------------------------------------------------------------------
\* len(c.clients)
ClientCountOffByOne(m) == Cardinality(DOMAIN m) + 1
ClientCount(m) == Cardinality(DOMAIN m)

\* Channel.removeClient on the map m with the send channels' states op:
\* nil the slot, close(client.send), delete the slot.  Closing a closed
\* channel panics and leaves the nil slot behind.
removeClient(m, op, c) ==
    IF op[c] THEN [clients |-> MapDel(m, cl[c].name),
                   open |-> [op EXCEPT ![c] = FALSE], ok |-> TRUE]
             ELSE [clients |-> MapSet(m, cl[c].name, Nil), open |-> op, ok |-> FALSE]

\* Channel.Close: removeClient for every client of the map.
RECURSIVE CloseClients(_, _)
CloseClients(m, op) ==
    IF DOMAIN m = {} THEN [clients |-> m, open |-> op, ok |-> TRUE]
    ELSE LET k == CHOOSE x \in DOMAIN m : TRUE
             r == removeClient(m, op, m[k])
         IN IF r.ok THEN CloseClients(r.clients, r.open) ELSE r
CloseNothing(m, op) == [clients |-> m, open |-> op, ok |-> TRUE]
Close(m, op) == CloseClients(m, op)

\* ---- Server.dispatch: the control loop -------------------------------------
\* ch, exists := s.channels[c.channel]; if !exists { newChannel }
AlwaysNewChannel(c) == TRUE
NeedsNewChannel(c) == cl[c].channel \notin DOMAIN channels

\* case c := <-s.addClient
HandleAdd(c) ==
    /\ panic = "none"
    /\ hub = "running"
    /\ busy = AtSelect
    /\ cl[c].st = "adding"
    /\ LET n == cl[c].channel
           fresh == NeedsNewChannel(c)
           o == IF fresh THEN c ELSE channels[n]
           ch == IF fresh THEN NewChannel ELSE chobj[o]
       IN /\ channels' = IF fresh THEN MapSet(channels, n, o) ELSE channels
          /\ chobj' = [chobj EXCEPT ![o] =
                          [ch EXCEPT !.clients = MapSet(ch.clients, cl[c].name, c)]]
          /\ last' = Did("HandleAdd", c, o)
    /\ cl' = [cl EXCEPT ![c].st = "serving"]
    /\ clock' = Rearm(clock)
    /\ UNCHANGED <<open, recv, msgs, pub, hub, panic, busy, rs, opt, hb, wire>>

\* case c := <-s.removeClient: the receive.  The send of the disconnect
\* goroutine completes here, and that goroutine goes on to
\* OnClientDisconnectFunc while dispatch runs the case body.
RecvRemove(c) ==
    /\ panic = "none"
    /\ hub = "running"
    /\ busy = AtSelect
    /\ cl[c].st = "removing"
    /\ busy' = Holding("remove", c, "")
    /\ cl' = [cl EXCEPT ![c].st = "notifying"]
    /\ last' = Did("RecvRemove", c, Nil)
    /\ UNCHANGED <<channels, chobj, open, recv, msgs, pub, hub, panic,
                   rs, clock, opt, hb, wire>>

\* s.options.OnClientDisconnectFunc(c.channel, c.name), on the disconnect
\* goroutine, after its send
OnClientDisconnect(c) ==
    /\ panic = "none"
    /\ cl[c].st = "notifying"
    /\ cl' = [cl EXCEPT ![c].st = "gone"]
    /\ last' = Did("OnClientDisconnect", c, Nil)
    /\ UNCHANGED <<channels, chobj, open, recv, msgs, pub, hub, panic,
                   busy, rs, clock, opt, hb, wire>>

\* case c := <-s.removeClient: the case body
HandleRemove(c) ==
    /\ panic = "none"
    /\ busy = Holding("remove", c, "")
    /\ LET n == cl[c].channel IN
       IF n \in DOMAIN channels
       THEN LET o == channels[n]
                r == removeClient(chobj[o].clients, open, c)
                empty == ClientCount(r.clients) = 0
                z == IF r.ok /\ empty THEN Close(r.clients, r.open) ELSE r
            IN /\ chobj' = [chobj EXCEPT ![o].clients = z.clients]
               /\ open' = z.open
               /\ channels' = IF r.ok /\ empty THEN MapDel(channels, n) ELSE channels
               /\ panic' = IF z.ok THEN "none" ELSE "close of closed channel"
               /\ busy' = IF z.ok THEN AtSelect ELSE busy
               /\ last' = Did("HandleRemove", c, o)
       ELSE /\ busy' = AtSelect
            /\ last' = Did("HandleRemove", c, Nil)
            /\ UNCHANGED <<channels, chobj, open, panic>>
    /\ clock' = Rearm(clock)
    /\ UNCHANGED <<cl, recv, msgs, pub, hub, rs, opt, hb, wire>>

\* case channel := <-s.closeChannel: the receive of a name sent by a caller
\* of Server.CloseChannel(n), who returns when the send completes
RecvClose(n) ==
    /\ panic = "none"
    /\ hub = "running"
    /\ busy = AtSelect
    /\ busy' = Holding("close", Nil, n)
    /\ last' = Did("RecvClose", Nil, Nil)
    /\ UNCHANGED <<channels, chobj, cl, open, recv, msgs, pub, hub, panic,
                   rs, clock, opt, hb, wire>>

\* case channel := <-s.closeChannel: the case body
HandleClose(n) ==
    /\ panic = "none"
    /\ busy = Holding("close", Nil, n)
    /\ IF n \in DOMAIN channels
       THEN LET o == channels[n]
                z == Close(chobj[o].clients, open)
            IN /\ channels' = MapDel(channels, n)
               /\ chobj' = [chobj EXCEPT ![o].clients = z.clients]
               /\ open' = z.open
               /\ panic' = IF z.ok THEN "none" ELSE "close of closed channel"
               /\ busy' = IF z.ok THEN AtSelect ELSE busy
               /\ last' = Did("HandleClose", Nil, o)
       ELSE /\ busy' = AtSelect
            /\ last' = Did("HandleClose", Nil, Nil)
            /\ UNCHANGED <<channels, chobj, open, panic>>
    /\ clock' = Rearm(clock)
    /\ UNCHANGED <<cl, recv, msgs, pub, hub, rs, opt, hb, wire>>

\* case <-s.shutdown, sent by Server.Shutdown().  s.close() sends every
\* channel name on s.closeChannel from inside dispatch, the only goroutine
\* that ever receives from it: with a channel in the table the send never
\* completes ("closing").  With none, the four control channels are closed
\* and dispatch returns ("stopped").
HandleShutdown ==
    /\ panic = "none"
    /\ hub = "running"
    /\ busy = AtSelect
    /\ hub' = IF DOMAIN channels = {} THEN "stopped" ELSE "closing"
    /\ last' = Did("HandleShutdown", Nil, Nil)
    /\ UNCHANGED <<channels, chobj, cl, open, recv, msgs, pub, panic,
                   busy, rs, clock, opt, hb, wire>>

LoopNext ==
    \/ \E c \in Clients : HandleAdd(c)
    \/ \E c \in Clients : RecvRemove(c)
    \/ \E c \in Clients : HandleRemove(c)
    \/ \E n \in ChanNames : RecvClose(n)
    \/ \E n \in ChanNames : HandleClose(n)
    \/ HandleShutdown

ClientNext ==
    \/ \E c \in Clients, r \in Requests : Connect(c, r)
    \/ \E c \in Clients : CloseNotify(c)
    \/ \E c \in Clients : OnClientDisconnect(c)
    \/ \E c \in Clients : SendAfterShutdown(c)

\* ---- the publisher: Server.SendMessageToClient on the caller's goroutine ----
\* Where Channel.SendMessage returns to: the range over s.channels when the
\* channel argument was "", the caller otherwise.
AfterChannel(p) ==
    IF p.chArg = ""
    THEN [p EXCEPT !.pc = "chans", !.ch = Nil, !.cl = Nil, !.clSnap = {}, !.clSeen = {}]
    ELSE IdlePub

\* Where Client.SendMessage returns to: the range over c.clients of a
\* broadcast, Channel.SendMessage's caller when one client was named.
AfterClient(p) ==
    IF p.clArg = "" THEN [p EXCEPT !.pc = "clients", !.cl = Nil] ELSE AfterChannel(p)

\* if message.version <= c.version
VersionAny(m, c) == TRUE
VersionOK(m, c) == m.version <= cl[c].version

\* Client.SendMessage up to the send: the filter, c.lastEventID = message.id,
\* then the goroutine is in c.send <- message ("sending").
ClientSendMessage(p, c) ==
    /\ IF VersionOK(msgs[p.msg], c)
       THEN /\ cl' = [cl EXCEPT ![c].lastEventID = msgs[p.msg].id]
            /\ pub' = [p EXCEPT !.pc = "sending", !.cl = c]
       ELSE /\ cl' = cl
            /\ pub' = AfterClient(p)
    /\ last' = Did("ClientSendMessage", c, p.ch)

\* if name != "" (one client is addressed)
NeverTargeted(p) == FALSE
Targeted(p) == p.clArg # ""

\* Channel.SendMessage on Channel object o, up to the first send.
ChannelSendMessage(p, o) ==
    LET q == [p EXCEPT !.ch = o] IN
    IF Targeted(p)
    THEN /\ chobj' = chobj
         /\ IF p.clArg \in DOMAIN chobj[o].clients
            THEN ClientSendMessage(q, chobj[o].clients[p.clArg])
            ELSE /\ cl' = cl
                 /\ pub' = AfterChannel(q)
                 /\ last' = Did("ChannelSendMessage", Nil, o)
    ELSE /\ chobj' = [chobj EXCEPT ![o].lastEventID = msgs[p.msg].id]
         /\ cl' = cl
         /\ pub' = [q EXCEPT !.pc = "clients", !.clSnap = Members(o), !.clSeen = {}]
         /\ last' = Did("ChannelSendMessage", Nil, o)

\* The call SendMessageToClient(n, id, message) with a Message just built by
\* NewMessageVer(MessageId(k), _, _, v): the test of the channel argument.
\*   len(channel) == 0        -> range over s.channels
\*   _, ok := s.channels[n]   -> the channel is looked up a second time
\*   else                     -> logged, nothing sent
HasChannel(n) == n \in DOMAIN channels

\* len(channel) == 0
AllOrMissing(n) == n = "" \/ ~HasChannel(n)
BroadcastAll(n) == n = ""

MessageId(k) == <<"1", "2", "3", "4">>[k]

PubCall(n, id, v) ==
    /\ panic = "none"
    /\ pub.pc = "idle"
    /\ Len(msgs) < MaxMessages
    /\ msgs' = Append(msgs, [id |-> MessageId(Len(msgs) + 1), version |-> v])
    /\ LET k == Len(msgs) + 1
           p == [IdlePub EXCEPT !.chArg = n, !.clArg = id, !.msg = k]
       IN /\ pub' = IF BroadcastAll(n)
                    THEN [p EXCEPT !.pc = "chans", !.chSnap = Range(channels)]
                    ELSE IF HasChannel(n) THEN [p EXCEPT !.pc = "lookup"] ELSE IdlePub
          /\ last' = Did("SendMessageToClient", Nil, Nil)
    /\ UNCHANGED <<channels, chobj, cl, open, recv, hub, panic,
                 busy, rs, clock, opt, hb, wire>>

\* s.channels[channel].SendMessage(client, message): the second lookup.  A
\* channel deleted since the test yields a nil *Channel, whose fields
\* Channel.SendMessage dereferences.
PubLookup ==
    /\ panic = "none"
    /\ pub.pc = "lookup"
    /\ IF HasChannel(pub.chArg)
       THEN /\ ChannelSendMessage(pub, channels[pub.chArg])
            /\ panic' = "none"
       ELSE /\ panic' = "nil pointer dereference"
            /\ last' = Did("ChannelSendMessage", Nil, Nil)
            /\ UNCHANGED <<chobj, cl, pub>>
    /\ UNCHANGED <<channels, open, recv, msgs, hub,
                 busy, rs, clock, opt, hb, wire>>

\* for _, ch := range s.channels { ch.SendMessage(client, message) }
\* An entry deleted before it is reached is not produced; one added during
\* the range may be produced or skipped.
PubNextChannel ==
    /\ panic = "none"
    /\ pub.pc = "chans"
    /\ \/ \E o \in Range(channels) \ pub.chSeen :
             ChannelSendMessage([pub EXCEPT !.chSeen = @ \cup {o}], o)
       \/ /\ (pub.chSnap \cap Range(channels)) \subseteq pub.chSeen
          /\ pub' = IdlePub
          /\ last' = Did("RangeChannelsDone", Nil, Nil)
          /\ UNCHANGED <<chobj, cl>>
    /\ UNCHANGED <<channels, open, recv, msgs, hub, panic,
                 busy, rs, clock, opt, hb, wire>>

\* for _, cl := range c.clients { if cl != nil { cl.SendMessage(message) } }
PubNextClient ==
    /\ panic = "none"
    /\ pub.pc = "clients"
    /\ \/ \E c \in Members(pub.ch) \ pub.clSeen :
             ClientSendMessage([pub EXCEPT !.clSeen = @ \cup {c}], c)
       \/ /\ (pub.clSnap \cap Members(pub.ch)) \subseteq pub.clSeen
          /\ pub' = AfterChannel(pub)
          /\ last' = Did("RangeClientsDone", Nil, pub.ch)
          /\ cl' = cl
    /\ UNCHANGED <<channels, chobj, open, recv, msgs, hub, panic,
                 busy, rs, clock, opt, hb, wire>>

\* c.send <- message completes when the drain loop of ServeHTTP
\* (for msg := range c.send) receives it; on a closed channel it panics.
PubPush ==
    /\ panic = "none"
    /\ pub.pc = "sending"
    /\ IF open[pub.cl]
       THEN /\ recv' = [recv EXCEPT ![pub.cl] = Append(@, pub.msg)]
            /\ pub' = AfterClient(pub)
            /\ panic' = "none"
       ELSE /\ panic' = "send on closed channel"
            /\ UNCHANGED <<recv, pub>>
    /\ last' = Did("Push", pub.cl, pub.ch)
    /\ UNCHANGED <<channels, chobj, cl, open, msgs, hub,
                 busy, rs, clock, opt, hb, wire>>

PubNext ==
    \/ \E n \in ChanNames \cup {""}, id \in ClientNames, v \in Versions :
          PubCall(n, id, v)
    \/ PubLookup
    \/ PubNextChannel
    \/ PubNextClient
    \/ PubPush

Next == LoopNext \/ ClientNext \/ PubNext

Spec == Init /\ [][Next]_vars

\* Go schedules every goroutine that can run: the control loop takes an
\* event that is ready, and the publisher's goroutine goes on.
FairSpec == Spec /\ WF_vars(LoopNext) /\ WF_vars(PubNext)

\* ---- Server.Restart on the caller's goroutine --------------------------------
\* Restart calls s.close(): for name := range s.channels { s.closeChannel <- name }
\* on the goroutine of its caller.  rs.snap and rs.subs record the table and
\* the registered clients at the call (history).  One call is made.
RestartCall ==
    /\ panic = "none"
    /\ rs.pc = "idle"
    /\ rs' = [pc |-> "range", snap |-> channels,
              subs |-> {c \in Clients : \E n \in DOMAIN channels :
                                           c \in Range(chobj[channels[n]].clients)},
              seen |-> {}, n |-> ""]
    /\ last' = Did("Restart", Nil, Nil)
    /\ UNCHANGED <<channels, chobj, cl, open, recv, msgs, pub, hub, panic,
                   busy, clock, opt, hb, wire>>

\* the case body dispatch is running deletes an entry of s.channels
DeletesChannel ==
    \/ busy.op = "close" /\ HasChannel(busy.n)
    \/ /\ busy.op = "remove"
       /\ HasChannel(cl[busy.c].channel)
       /\ LET r == removeClient(chobj[channels[cl[busy.c].channel]].clients,
                                open, busy.c)
          IN r.ok /\ ClientCount(r.clients) = 0

\* One step of the range over s.channels: the next name, or the end of the
\* loop and the return of Restart.  An entry deleted before it is reached is
\* not produced; one added during the range may be produced or skipped.
\* The range reads the map while dispatch may be writing it: the runtime
\* may stop the process (concurrent map iteration and map write).
RestartRange ==
    /\ panic = "none"
    /\ rs.pc = "range"
    /\ \/ /\ \E n \in DOMAIN channels \ rs.seen :
                rs' = [rs EXCEPT !.pc = "sending", !.n = n, !.seen = @ \cup {n}]
          /\ panic' = "none"
       \/ /\ (DOMAIN rs.snap \cap DOMAIN channels) \subseteq rs.seen
          /\ rs' = [rs EXCEPT !.pc = "returned", !.n = ""]
          /\ panic' = "none"
       \/ /\ DeletesChannel
          /\ panic' = "concurrent map iteration and map write"
          /\ rs' = rs
    /\ last' = Did("RestartRange", Nil, Nil)
    /\ UNCHANGED <<channels, chobj, cl, open, recv, msgs, pub, hub,
                   busy, clock, opt, hb, wire>>

\* s.closeChannel <- name: the send completes when dispatch, in its select,
\* receives the name; on the closed channel it panics.
RestartSend ==
    /\ panic = "none"
    /\ rs.pc = "sending"
    /\ \/ /\ hub = "running"
          /\ busy = AtSelect
          /\ busy' = Holding("close", Nil, rs.n)
          /\ rs' = [rs EXCEPT !.pc = "range", !.n = ""]
          /\ panic' = "none"
       \/ /\ hub = "stopped"
          /\ panic' = "send on closed control channel"
          /\ UNCHANGED <<busy, rs>>
    /\ last' = Did("RestartSend", Nil, Nil)
    /\ UNCHANGED <<channels, chobj, cl, open, recv, msgs, pub, hub,
                   clock, opt, hb, wire>>

RestartNext == RestartCall \/ RestartRange \/ RestartSend

\* the Server with its clients, callers of CloseChannel and Shutdown, and a
\* caller of Restart
NextRestart == LoopNext \/ ClientNext \/ RestartNext

RestartSpec == Init /\ [][NextRestart]_vars

\* ---- the heartbeat case of dispatch -------------------------------------------
\* time.After(15 * time.Second), in units of 7.5 seconds
HeartbeatInterval == 2

\* &Message{event: "heartbeat"}: id "" and version 0.  In a receive queue it
\* is message number 0.
HeartbeatMessage == [id |-> "", version |-> 0]

\* Time passes while dispatch waits in its select (the case bodies take no
\* time).  When the timer of this select has fired, the heartbeat case is
\* ready and one of the ready cases is taken.  clock.beats counts the
\* heartbeat cases taken.
Tick ==
    /\ panic = "none"
    /\ hub = "running"
    /\ busy = AtSelect
    /\ clock.timer < HeartbeatInterval
    /\ clock.beats < MaxBeats
    /\ clock' = [clock EXCEPT !.timer = @ + 1,
                              !.sinceBeat = IF @ > HeartbeatInterval THEN @ ELSE @ + 1]
    /\ last' = Did("Tick", Nil, Nil)
    /\ UNCHANGED <<channels, chobj, cl, open, recv, msgs, pub, hub, panic,
                   busy, rs, opt, hb, wire>>

\* case <-time.After(15 * time.Second): if s.options.Heartbeat, dispatch
\* itself calls SendMessageToClient("", "", &Message{event: "heartbeat"})
\* (written s.SendMessage("", "", ...) in the source).
HeartbeatCase ==
    /\ panic = "none"
    /\ hub = "running"
    /\ busy = AtSelect
    /\ clock.timer = HeartbeatInterval
    /\ IF opt.Heartbeat
       THEN /\ busy' = Holding("heartbeat", Nil, "")
            /\ hb' = [IdlePub EXCEPT !.pc = "chans", !.chSnap = Range(channels)]
            /\ clock' = [clock EXCEPT !.sinceBeat = 0, !.beats = @ + 1]
       ELSE /\ clock' = [clock EXCEPT !.timer = 0, !.sinceBeat = 0, !.beats = @ + 1]
            /\ UNCHANGED <<busy, hb>>
    /\ last' = Did("HeartbeatCase", Nil, Nil)
    /\ UNCHANGED <<channels, chobj, cl, open, recv, msgs, pub, hub, panic,
                   rs, opt, wire>>

\* for _, ch := range s.channels { ch.SendMessage("", message) }: the next
\* Channel, where Channel.SendMessage sets c.lastEventID = message.id; or
\* the end of the range, and dispatch is back in its select.
HeartbeatNextChannel ==
    /\ panic = "none"
    /\ busy.op = "heartbeat"
    /\ hb.pc = "chans"
    /\ \/ \E o \in Range(channels) \ hb.chSeen :
             /\ chobj' = [chobj EXCEPT ![o].lastEventID = HeartbeatMessage.id]
             /\ hb' = [hb EXCEPT !.pc = "clients", !.ch = o, !.chSeen = @ \cup {o},
                                 !.clSnap = Members(o), !.clSeen = {}]
             /\ last' = Did("HeartbeatChannel", Nil, o)
             /\ UNCHANGED <<busy, clock>>
       \/ /\ Range(channels) \subseteq hb.chSeen
          /\ hb' = IdlePub
          /\ busy' = AtSelect
          /\ clock' = Rearm(clock)
          /\ last' = Did("HeartbeatDone", Nil, Nil)
          /\ chobj' = chobj
    /\ UNCHANGED <<channels, cl, open, recv, msgs, pub, hub, panic, rs, opt, wire>>

\* for _, cl := range c.clients: Client.SendMessage up to the send
HeartbeatNextClient ==
    /\ panic = "none"
    /\ busy.op = "heartbeat"
    /\ hb.pc = "clients"
    /\ \/ \E c \in Members(hb.ch) \ hb.clSeen :
             /\ IF VersionOK(HeartbeatMessage, c)
                THEN /\ cl' = [cl EXCEPT ![c].lastEventID = HeartbeatMessage.id]
                     /\ hb' = [hb EXCEPT !.pc = "sending", !.cl = c,
                                         !.clSeen = @ \cup {c}]
                ELSE /\ cl' = cl
                     /\ hb' = [hb EXCEPT !.clSeen = @ \cup {c}]
             /\ last' = Did("HeartbeatClient", c, hb.ch)
       \/ /\ Members(hb.ch) \subseteq hb.clSeen
          /\ hb' = [hb EXCEPT !.pc = "chans", !.ch = Nil, !.cl = Nil,
                              !.clSnap = {}, !.clSeen = {}]
          /\ last' = Did("HeartbeatClientsDone", Nil, hb.ch)
          /\ cl' = cl
    /\ UNCHANGED <<channels, chobj, open, recv, msgs, pub, hub, panic,
                   busy, rs, clock, opt, wire>>

\* c.send <- message, received by the drain loop of the client's ServeHTTP
HeartbeatPush ==
    /\ panic = "none"
    /\ busy.op = "heartbeat"
    /\ hb.pc = "sending"
    /\ IF open[hb.cl]
       THEN /\ recv' = [recv EXCEPT ![hb.cl] = Append(@, 0)]
            /\ hb' = [hb EXCEPT !.pc = "clients", !.cl = Nil]
            /\ panic' = "none"
       ELSE /\ panic' = "send on closed channel"
            /\ UNCHANGED <<recv, hb>>
    /\ last' = Did("HeartbeatPush", hb.cl, hb.ch)
    /\ UNCHANGED <<channels, chobj, cl, open, msgs, pub, hub,
                   busy, rs, clock, opt, wire>>

TimerNext ==
    \/ Tick
    \/ HeartbeatCase
    \/ HeartbeatNextChannel
    \/ HeartbeatNextClient
    \/ HeartbeatPush

\* NewServer with Options.Heartbeat set or not
InitTimed ==
    /\ InitHub
    /\ \E h \in BOOLEAN : opt = [Heartbeat |-> h, RetryInterval |-> 0]
    /\ wire = IdleWire

\* the Server over time, with its clients and a publisher who calls
\* SendMessage(n, message) for a channel name n (no caller of CloseChannel,
\* Restart or Shutdown)
NextTimed ==
    \/ \E c \in Clients : HandleAdd(c)
    \/ \E c \in Clients : RecvRemove(c)
    \/ \E c \in Clients : HandleRemove(c)
    \/ \E c \in Clients, r \in Requests : Connect(c, r)
    \/ \E c \in Clients : CloseNotify(c)
    \/ \E c \in Clients : OnClientDisconnect(c)
    \/ \E n \in ChanNames, v \in Versions : PubCall(n, "", v)
    \/ PubLookup
    \/ PubNextClient
    \/ PubPush
    \/ TimerNext

TimedSpec == InitTimed /\ [][NextTimed]_vars

\* ---- Message.String and the drain loop of ServeHTTP ---------------------------
\* A string is the sequence of its characters.
DataChars == {"a", "b", "\n", "%"}
RECURSIVE Strings(_)
Strings(k) ==
    IF k = 0 THEN {<< >>}
    ELSE LET S == Strings(k - 1)
         IN S \cup {Append(t, ch) : t \in {u \in S : Len(u) = k - 1}, ch \in DataChars}
Ids == {<< >>, <<"7">>}
Events == {<< >>, <<"u", "p", "d", "a", "t", "e">>}
RetryIntervals == {0, 3000}

\* %d of a non-negative int
Digit(d) == <<"0", "1", "2", "3", "4", "5", "6", "7", "8", "9">>[d + 1]
RECURSIVE Itoa(_)
Itoa(n) == IF n < 10 THEN <<Digit(n)>> ELSE Itoa(n \div 10) \o <<Digit(n % 10)>>

\* strings.Replace(s, "\n", new, -1)
RECURSIVE Replace(_, _)
Replace(t, new) ==
    IF t = << >> THEN << >>
    ELSE (IF Head(t) = "\n" THEN new ELSE <<Head(t)>>) \o Replace(Tail(t), new)

\* Message.String
String(m) ==
    (IF Len(m.id) > 0 THEN <<"i", "d", ":", " ">> \o m.id \o <<"\n">> ELSE << >>)
    \o (IF m.retry > 0
        THEN <<"r", "e", "t", "r", "y", ":", " ">> \o Itoa(m.retry) \o <<"\n">>
        ELSE << >>)
    \o (IF Len(m.event) > 0
        THEN <<"e", "v", "e", "n", "t", ":", " ">> \o m.event \o <<"\n">>
        ELSE << >>)
    \o (IF Len(m.data) > 0
        THEN <<"d", "a", "t", "a", ":", " ">>
             \o Replace(m.data, <<"\n", "d", "a", "t", "a", ":", " ">>) \o <<"\n">>
        ELSE << >>)
    \o <<"\n">>

\* fmt.Fprintf(response, format) with no operands: what is written.  A '%'
\* starts a verb: "%%" writes '%', a verb without operand writes
\* %!v(MISSING), and a '%' that ends the format writes %!(NOVERB).  (No
\* character of the strings here is a flag, a width or a precision.)
RECURSIVE Fprintf(_)
Fprintf(f) ==
    IF f = << >> THEN << >>
    ELSE IF Head(f) # "%" THEN <<Head(f)>> \o Fprintf(Tail(f))
    ELSE IF Len(f) = 1 THEN <<"%", "!", "(", "N", "O", "V", "E", "R", "B", ")">>
    ELSE IF f[2] = "%" THEN <<"%">> \o Fprintf(Tail(Tail(f)))
    ELSE <<"%", "!", f[2], "(", "M", "I", "S", "S", "I", "N", "G", ")">>
         \o Fprintf(Tail(Tail(f)))

\* A Message built by NewMessage(id, data, event) has been pushed onto a
\* client's send channel of a Server with Options.RetryInterval set.
InitWire ==
    /\ InitHub
    /\ \E r \in RetryIntervals : opt = [Heartbeat |-> FALSE, RetryInterval |-> r]
    /\ \E id \in Ids, ev \in Events, d \in Strings(MaxData) :
          wire = [pc |-> "queued", id |-> id, data |-> d, event |-> ev,
                  retry |-> 0, out |-> << >>]

\* for msg := range c.send: msg.retry = s.options.RetryInterval;
\* fmt.Fprintf(response, msg.String()); flusher.Flush()
Drain ==
    /\ wire.pc = "queued"
    /\ LET m == [wire EXCEPT !.retry = opt.RetryInterval]
       IN wire' = [m EXCEPT !.pc = "written", !.out = Fprintf(String(m))]
    /\ last' = Did("Drain", Nil, Nil)
    /\ UNCHANGED <<channels, chobj, cl, open, recv, msgs, pub, hub, panic,
                   busy, rs, clock, opt, hb>>

WireSpec == InitWire /\ [][Drain]_vars

\* ---- the claims ---------------------------------------------------------------
Count(q, k) == Cardinality({i \in 1..Len(q) : q[i] = k})
Registered(c) == \E n \in DOMAIN channels : c \in Members(channels[n])
PubOps == {"SendMessageToClient", "ChannelSendMessage", "ClientSendMessage",
           "RangeChannelsDone", "RangeClientsDone", "Push"}

\* C1: a broadcast of a version 0 message to all of topic T returns with the
\* message pushed exactly once onto the queue of every member of S, the
\* subscribers T had when the broadcast read them, and with T's lastEventID
\* set to the message's id.
C1_BroadcastReachesEveryMember ==
    [][ ( /\ pub.pc = "clients" /\ pub.chArg # "" /\ pub.clArg = ""
          /\ msgs[pub.msg].version = 0
          /\ pub'.pc = "idle" )
        => /\ \A c \in pub.clSnap : Count(recv'[c], pub.msg) = 1
           /\ chobj'[pub.ch].lastEventID = msgs[pub.msg].id ]_vars

\* C2: broadcasts are ordered with Unsubscribe and CloseTopic, so a broadcast
\* is never pushing onto a queue that has been closed.
C2_NoPushOnClosedQueue ==
    /\ pub.pc = "sending" => open[pub.cl] /\ Registered(pub.cl)
    /\ panic # "send on closed channel"

\* C3: once Shutdown has been accepted, every queue of a registered
\* subscriber that is open is eventually closed.
C3_ShutdownClosesEveryQueue ==
    \A c \in Clients :
        (hub # "running" /\ cl[c].st \in {"serving", "removing"} /\ open[c])
            ~> ~open[c]

\* C4: handling Unsubscribe(s) for a subscriber whose queue CloseTopic has
\* already closed changes nothing and does not fail.
C4_UnsubscribeIdempotent ==
    [][ \A c \in Clients :
          (HandleRemove(c) /\ ~open[c])
          => /\ UNCHANGED <<channels, chobj, open, recv>>
             /\ panic' = "none" ]_vars

\* C5: no message whose version exceeds a subscriber's is pushed onto its
\* queue, and Client.SendMessage goes on to push every message whose
\* version does not exceed it.
C5_VersionFilter ==
    /\ \A c \in Clients : \A i \in 1..Len(recv[c]) :
           msgs[recv[c][i]].version <= cl[c].version
    /\ pub.pc = "sending" => msgs[pub.msg].version <= cl[pub.cl].version
    /\ last.op = "ClientSendMessage"
       => ( (pub.pc = "sending" /\ pub.cl = last.c)
            <=> msgs[Len(msgs)].version <= cl[last.c].version )

\* a message was filtered for one subscriber and pushed to another
C5_Witness ==
    /\ last.op = "ClientSendMessage"
    /\ pub.pc # "sending"
    /\ msgs[Len(msgs)].version > cl[last.c].version
    /\ \E d \in Clients : recv[d] = <<Len(msgs)>> /\ cl[d].version = 1

\* C6: a broadcast to topic T that names a subscriber changes at most the
\* queue and lastEventID of the client registered under that name in T:
\* that client is pushed the message, once, if the message passes its filter
\* (and its queue is open when the push is made); no other client, no
\* Channel's lastEventID and no map changes; with no client of that name in
\* T nothing changes at all.
C6_TargetedBroadcastFrame ==
    [][ ( /\ last'.op \in PubOps
          /\ pub.pc \in {"lookup", "sending"}
          /\ pub.chArg # "" /\ pub.clArg # "" )
        => LET m == IF HasChannel(pub.chArg)
                    THEN chobj[channels[pub.chArg]].clients ELSE EmptyMap
               target == IF pub.pc = "sending" THEN {pub.cl}
                         ELSE IF pub.clArg \in DOMAIN m THEN {m[pub.clArg]}
                         ELSE {}
           IN /\ UNCHANGED <<channels, chobj, open>>
              /\ \A c \in Clients \ target : cl'[c] = cl[c] /\ recv'[c] = recv[c]
              /\ (target = {} /\ panic' = "none") => pub' = IdlePub
              /\ \A c \in target :
                   IF pub.pc = "sending"
                   THEN /\ cl'[c] = cl[c]
                        /\ IF open[c]
                           THEN recv'[c] = Append(recv[c], pub.msg) /\ pub' = IdlePub
                           ELSE recv'[c] = recv[c]
                   ELSE /\ recv'[c] = recv[c]
                        /\ IF msgs[pub.msg].version <= cl[c].version
                           THEN /\ pub'.pc = "sending" /\ pub'.cl = c
                                /\ cl'[c].lastEventID = msgs[pub.msg].id
                           ELSE cl'[c] = cl[c] /\ pub' = IdlePub ]_vars

\* the named subscriber of a topic with two subscribers was pushed the
\* message; the other one and the topic's lastEventID are as before
C6_Witness ==
    /\ last.op = "Push" /\ pub.pc = "idle" /\ panic = "none"
    /\ HasChannel("x")
    /\ \E c, d \in Members(channels["x"]) :
          /\ c # d
          /\ recv[c] = <<1>> /\ cl[c].lastEventID = "1"
          /\ recv[d] = << >> /\ cl[d].lastEventID = ""
    /\ chobj[channels["x"]].lastEventID = ""

\* C7: between the events of the control loop no topic of the table is
\* without subscribers.
C7_NoEmptyTopic ==
    panic = "none" => \A n \in DOMAIN channels : Members(channels[n]) # {}

\* the Unsubscribe of a topic's last subscriber has just deleted the topic
C7_Witness ==
    /\ last.op = "HandleRemove" /\ last.ch # Nil /\ panic = "none"
    /\ ~HasChannel(cl[last.c].channel)
    /\ \E n \in DOMAIN channels : Members(channels[n]) # {}

\* C8: the Unsubscribe that removes the last member of a topic leaves
\* HasChannel(name) false, and a broadcast to a name that is not in the
\* table changes no topic, no subscriber, no queue and no lastEventID.
C8_BroadcastToDeletedTopic ==
    [][ /\ \A c \in Clients :
             ( /\ HandleRemove(c)
               /\ panic' = "none"
               /\ HasChannel(cl[c].channel)
               /\ Members(channels[cl[c].channel]) \subseteq {c} )
             => ~HasChannel(cl[c].channel)'
        /\ \A n \in ChanNames, id \in ClientNames, v \in Versions :
             (PubCall(n, id, v) /\ ~HasChannel(n))
             => /\ UNCHANGED <<channels, chobj, cl, open, recv>>
                /\ pub' = IdlePub ]_vars

\* a broadcast to the topic whose last member was unsubscribed has returned
C8_Witness ==
    /\ last.op = "SendMessageToClient" /\ pub.pc = "idle" /\ panic = "none"
    /\ \E c \in Clients :
          /\ cl[c].st = "gone" /\ ~open[c] /\ recv[c] = << >>
          /\ ~HasChannel(cl[c].channel)
          /\ \A d \in Clients \ {c} : cl[d].channel # cl[c].channel
    /\ DOMAIN channels # {}

\* C9: two Subscribes that wait at the same time for a topic that does not
\* exist, with distinct identities: handled one after the other, in either
\* order, they make one Topic, which holds both subscribers.
C9_ConcurrentSubscribe ==
    [][ \A c1, c2 \in Clients :
          ( /\ c1 # c2
            /\ last = Did("HandleAdd", c1, c1)
            /\ cl[c2].channel = cl[c1].channel
            /\ cl[c2].name # cl[c1].name
            /\ HandleAdd(c2) )
          => /\ channels' = channels
             /\ channels'[cl[c1].channel] = c1
             /\ chobj'[c1].clients =
                  [id \in {cl[c1].name, cl[c2].name} |->
                      IF id = cl[c1].name THEN c1 ELSE c2]
             /\ chobj'[c2] = NewChannel ]_vars

\* both Subscribes have been handled, the second right after the first
C9_Witness ==
    /\ last = Did("HandleAdd", 1, 2)
    /\ HasChannel(cl[last.c].channel)
    /\ Members(channels[cl[last.c].channel]) = {last.c, last.ch}
    /\ cl[last.ch].st = "serving" /\ cl[last.c].st = "serving"
    /\ recv[last.ch] = << >> /\ msgs = << >>

\* C10: CloseTopic(name) for a topic of the table closes the queue of every
\* member, each open until then, and deletes the topic; every other topic,
\* every other client and every queue's content stay as they are.  For a
\* name not in the table nothing changes.
C10_CloseTopicFrame ==
    [][ \A n \in ChanNames :
          HandleClose(n)
          => IF HasChannel(n)
             THEN LET o == channels[n] IN
                  /\ panic' = "none"
                  /\ \A c \in Members(o) : open[c] /\ ~open'[c]
                  /\ \A c \in Clients \ Members(o) : open'[c] = open[c]
                  /\ DOMAIN channels' = DOMAIN channels \ {n}
                  /\ \A m \in DOMAIN channels' : channels'[m] = channels[m]
                  /\ chobj'[o].clients = EmptyMap
                  /\ \A q \in Clients \ {o} : chobj'[q] = chobj[q]
                  /\ UNCHANGED <<cl, recv>>
             ELSE UNCHANGED <<channels, chobj, cl, open, recv, panic>> ]_vars

\* a topic with two members has been closed while another topic stays
C10_Witness ==
    /\ last.op = "HandleClose" /\ last.ch # Nil /\ panic = "none"
    /\ Cardinality({c \in Clients : cl[c].st = "serving" /\ ~open[c]}) >= 1
    /\ \E n \in DOMAIN channels : \E c \in Members(channels[n]) : open[c]

\* C13: OnClientDisconnectFunc is called for a subscriber only when the
\* control loop has finished handling its Unsubscribe: the subscriber is in
\* no topic's map and its queue is closed.
C13_DisconnectAfterRemoval ==
    [][ \A c \in Clients :
          OnClientDisconnect(c)
          => /\ busy # Holding("remove", c, "")
             /\ ~open[c]
             /\ ~Registered(c) ]_vars

\* C11: when Restart returns, every topic that was in the table at the call
\* has been deleted and the queue of every subscriber registered at the call
\* is closed; the control loop, running before, is still running.
C11_RestartClosesAllTopics ==
    [][ (rs.pc = "range" /\ rs'.pc = "returned" /\ hub = "running")
        => /\ \A n \in DOMAIN rs.snap :
                ~(HasChannel(n)' /\ channels'[n] = rs.snap[n])
           /\ \A c \in rs.subs : ~open'[c]
           /\ hub' = "running" ]_vars

\* the lines of a string: its parts between newlines
RECURSIVE Lines(_)
Lines(t) ==
    IF \A i \in 1..Len(t) : t[i] # "\n" THEN <<t>>
    ELSE LET k == CHOOSE i \in 1..Len(t) :
                     t[i] = "\n" /\ \A j \in 1..(i - 1) : t[j] # "\n"
         IN <<SubSeq(t, 1, k - 1)>> \o Lines(SubSeq(t, k + 1, Len(t)))

RECURSIVE DataLines(_)
DataLines(ls) ==
    IF ls = << >> THEN << >>
    ELSE <<"d", "a", "t", "a", ":", " ">> \o Head(ls) \o <<"\n">> \o DataLines(Tail(ls))

\* C12: what is written for a Message is, in this order, "id: <id>" iff the
\* id is not empty, "retry: <n>" iff the stamped retry is positive,
\* "event: <event>" iff the event is not empty, one "data: <line>" for each
\* line of the data iff the data is not empty, each ended by a newline, then
\* one empty line.
C12_WireFormat ==
    wire.pc = "written"
    => wire.out =
         (IF wire.id # << >> THEN <<"i", "d", ":", " ">> \o wire.id \o <<"\n">>
          ELSE << >>)
         \o (IF wire.retry > 0
             THEN <<"r", "e", "t", "r", "y", ":", " ">> \o Itoa(wire.retry) \o <<"\n">>
             ELSE << >>)
         \o (IF wire.event # << >>
             THEN <<"e", "v", "e", "n", "t", ":", " ">> \o wire.event \o <<"\n">>
             ELSE << >>)
         \o (IF wire.data # << >> THEN DataLines(Lines(wire.data)) ELSE << >>)
         \o <<"\n">>

\* C14: the topics table, every Topic's subscribers map and lastEventID and
\* every Subscriber's lastEventID are written only by a step of the control
\* loop: no step that the goroutine of a caller of Broadcast takes changes
\* them.
C14_OnlyLoopWrites ==
    [][ last'.op \in PubOps
        => /\ channels' = channels
           /\ chobj' = chobj
           /\ \A c \in Clients : cl'[c].lastEventID = cl[c].lastEventID ]_vars

\* C15: once the control loop has received the shutdown request it reaches
\* the stopped state (every topic torn down, the control channels closed).
C15_ShutdownTerminates ==
    (last.op = "HandleShutdown" /\ panic = "none")
        ~> (hub = "stopped" \/ panic # "none")

\* C16: handling Unsubscribe(s) removes s only: every other subscriber that
\* is registered with an open queue is still registered, with its queue
\* open, afterwards.
C16_UnsubscribeRemovesOnlyIt ==
    [][ \A c \in Clients :
          HandleRemove(c)
          => \A d \in Clients \ {c} :
                (Registered(d) /\ open[d]) => (Registered(d)' /\ open'[d]) ]_vars

\* C19: between the events of the control loop, a subscriber that Subscribe
\* has accepted has an open queue if and only if it is the value stored
\* under its identity in the map of its topic.
C19_OpenIffStored ==
    (busy = AtSelect /\ panic = "none")
    => \A c \in Clients :
          cl[c].st \notin {"new", "adding"}
          => ( open[c]
               <=> /\ HasChannel(cl[c].channel)
                   /\ cl[c].name \in DOMAIN chobj[channels[cl[c].channel]].clients
                   /\ chobj[channels[cl[c].channel]].clients[cl[c].name] = c )

\* C17: while a Broadcast is blocked in the push onto a subscriber's queue,
\* its message reaches no other subscriber and the control loop accepts no
\* request (Subscribe, Unsubscribe, CloseTopic, Shutdown).
C17_BlockedPushStallsHub ==
    [][ (pub.pc = "sending" /\ open[pub.cl])
        => /\ \A c \in Clients \ {pub.cl} :
                Count(recv'[c], pub.msg) = Count(recv[c], pub.msg)
           /\ last'.op \notin {"HandleAdd", "RecvRemove", "RecvClose",
                               "HandleShutdown"} ]_vars

\* C18: with heartbeat enabled a heartbeat is broadcast once every interval,
\* whatever other events the loop handles in between: the time since the
\* last heartbeat case never exceeds the interval.
C18_HeartbeatEveryInterval ==
    opt.Heartbeat => clock.sinceBeat <= HeartbeatInterval

\* C20: no step of a heartbeat broadcast changes the lastEventID of a Topic
\* or of a Subscriber.
C20_HeartbeatKeepsLastEventID ==
    [][ last'.op \in {"HeartbeatCase", "HeartbeatChannel", "HeartbeatClient",
                      "HeartbeatClientsDone", "HeartbeatPush", "HeartbeatDone"}
        => /\ \A o \in Clients : chobj'[o].lastEventID = chobj[o].lastEventID
           /\ \A c \in Clients : cl'[c].lastEventID = cl[c].lastEventID ]_vars

====
